---- MODULE Spec2Model ----
(***************************************************************************)
(* Model of megaphone (cryptomental/steemtools):                           *)
(*   - Account.virtual_op_count / Account.history / Account.history2       *)
(*     (src/megaphone/base.py), the batch-wise replay of an account log;   *)
(*   - Converter.sbd_median_price / steem_per_mvests, the TTL-cached       *)
(*     accessors (src/megaphone/base.py);                                  *)
(*   - Ticker.price (src/megaphone/ticker.py), the VWAP over exchanges.    *)
(* Each part has its own specification over the shared variables; the      *)
(* variables of the other parts keep their initial value.                  *)
(***************************************************************************)
EXTENDS Integers, Sequences, FiniteSets, TLC

\* ------------------------------------------------------------------ bounds
\* Longest account log of the model (operations have indices 0..MaxOps-1).
MaxOps == 5
\* batch_size ranges over 1..MaxBatch (base.py:304 fixes it to 1000; the replay
\* is modelled for every batch size so that batch boundaries fall inside a log
\* of MaxOps operations).
MaxBatch == 3
\* start ranges over 0..MaxStart (beyond the last index of the longest log).
MaxStart == 5
\* take of history2 ranges over 0..MaxTake.
MaxTake == 3
\* The counters of remote calls saturate at MaxFetch.
MaxFetch == 4

\* Operation types of the model's logs.
Tags == {"vote", "transfer"}

Max(a, b) == IF a >= b THEN a ELSE b

VARIABLES
  \* ---- the ledger and one replay (Account.history / history2)
  ledger,       \* the account log: ledger[k+1] is the op_type of the operation of index k
  grown,        \* ghost: an operation was appended since the replay was created
  mode,         \* "history" | "history2": the entry point the consumer called
  batch_size,   \* history: batch_size
  filter_by,    \* history: filter_by, [kind, str, list]
  start,        \* history: start
  take,         \* history2: take
  pc,           \* "h2" | "init" | "loop" | "done" | "error"
  max_index,    \* history: max_index
  i,            \* history: i
  limit,        \* history: limit of the last batch fetch
  yielded,      \* the items the generator has yielded, in order
  yieldedAll,   \* ghost: what the same traversal yields with filter_by = None
  nCount,       \* number of count checks sent (saturating)
  nBatch,       \* number of batch fetches sent (saturating)
  parity,       \* parity of the number of batch fetches sent
  lastRpc,      \* outcome of the last remote call: "none" | "ok" | "fail"
  seenLen,      \* ghost: items in the log when history read max_index (-1: not yet)
  \* ---- one call of Ticker.price
  ppc,          \* "idle" | "waiting" | "returned" | "raised"
  sent,         \* requests sent to each exchange
  resp,         \* the response of each exchange (Pending until it resolves)
  result,       \* what price returned or raised
  arrived,      \* ghost: the exchanges whose response came, in order of arrival
  \* ---- the cached accessors of Converter
  now,          \* time.time(), in seconds
  base_cache,   \* base_cache: key -> [set, expires, value]
  feed,         \* remote: amount of current_median_history.base, in 1/1000
  props,        \* remote: [fund, shares] of the dynamic global properties
  fetched,      \* ghost: per accessor, time and value of its last successful fetch
  lastCall,     \* ghost: the last accessor call and what it returned
  \* ---- one call of Converter.sp_to_rshares
  conv,         \* [pc, vesting_shares, voting_power, vote_pct, rshares]
  \* ---- one call of Ticker.get_ticker_symbol
  tsym          \* [pc, currency_pair, exchange_name, out]

replayVars == <<ledger, grown, mode, batch_size, filter_by, start, take, pc,
                max_index, i, limit, yielded, yieldedAll, nCount, nBatch,
                parity, lastRpc, seenLen>>

priceVars == <<ppc, sent, resp, result, arrived>>

cacheVars == <<now, base_cache, feed, props, fetched, lastCall>>

vars == <<replayVars, priceVars, cacheVars, conv, tsym>>

notReplayVars == <<priceVars, cacheVars, conv, tsym>>
notPriceVars == <<replayVars, cacheVars, conv, tsym>>
notCacheVars == <<replayVars, priceVars, conv, tsym>>
notConvVars == <<replayVars, priceVars, cacheVars, tsym>>
notSymVars == <<replayVars, priceVars, cacheVars, conv>>

\* ------------------------------------------------------- the remote ledger
\* One item of the account log, as get_account_history returns it.
Item(ledg, k) == [index |-> k, op_type |-> ledg[k + 1]]

\* The remote get_account_history(account, from, limit): the existing items
\* with index in [from - limit, from], oldest first; from = -1 is the tail.
get_account_history(ledg, from, lim) ==
  LET last == Len(ledg) - 1
      hi   == IF from = -1 \/ from > last THEN last ELSE from
      lo   == IF from = -1 THEN Max(0, last - lim) ELSE Max(0, from - lim)
  IN  IF hi < lo THEN << >>
      ELSE [k \in 1..(hi - lo + 1) |-> Item(ledg, lo + k - 1)]

\* ------------------------------------------------------------ the replay
\* Account.virtual_op_count: the index of the last item, 0 on IndexError.
virtual_op_count(ledg) ==
  LET h == get_account_history(ledg, -1, 0)
  IN  IF Len(h) = 0 THEN 0 ELSE h[1].index

\* Faulty variant of Yields: a list filter is compared like a single tag, so that no
\* operation type equals it.
YieldsListAsTag(f, op_type) ==
  IF f.kind = "none" THEN TRUE
  ELSE f.kind = "str" /\ op_type = f.str

\* The filter of Account.history: whether an item of type op_type is yielded.
Yields(f, op_type) ==
  IF f.kind = "none" THEN TRUE
  ELSE \/ (f.kind = "list" /\ \E k \in DOMAIN f.list : f.list[k] = op_type)
       \/ (f.kind = "str" /\ op_type = f.str)

NoFilter == [kind |-> "none", str |-> "", list |-> << >>]

\* The for loop of Account.history over one batch, from item k on: the items
\* yielded and whether the loop returned (index >= max_index).
RECURSIVE ForItems(_, _, _, _, _)
ForItems(history, k, maxi, f, out) ==
  IF k > Len(history) THEN [out |-> out, returned |-> FALSE]
  ELSE IF history[k].index >= maxi THEN [out |-> out, returned |-> TRUE]
  ELSE ForItems(history, k + 1, maxi, f,
                IF Yields(f, history[k].op_type)
                  THEN Append(out, history[k]) ELSE out)

\* Faulty variant of BatchLimit: every batch asks for batch_size items, the first item
\* of a later batch being the last one of the batch before.
BatchLimitNoAdjust(idx, start_index, bs) == bs

\* The limit of a batch fetch: batch_size for the first batch, batch_size - 1
\* for the later ones.
BatchLimit(idx, start_index, bs) == IF idx = start_index THEN bs ELSE bs - 1

Sat(n) == IF n >= MaxFetch THEN MaxFetch ELSE n + 1

\* Beyond Horizon every later fetch window lies past every index of the model,
\* and the fetch index is no longer the first one (start + batch_size).
Horizon == MaxOps + MaxStart + MaxBatch

Filters ==
  {NoFilter}
  \cup {[kind |-> "str", str |-> t, list |-> << >>] : t \in Tags}
  \cup {[kind |-> "list", str |-> "", list |-> l] :
          l \in {<< >>, <<"vote">>, <<"transfer", "vote">>}}

Ledgers == UNION {[1..n -> Tags] : n \in 0..MaxOps}

ReplayInit ==
  /\ ledger \in Ledgers
  /\ grown = FALSE
  /\ batch_size \in 1..MaxBatch
  /\ filter_by \in Filters
  /\ \/ mode = "history" /\ pc = "init" /\ start \in 0..MaxStart /\ take = 0
     \/ mode = "history2" /\ pc = "h2" /\ start = 0 /\ take \in 0..MaxTake
  /\ max_index = 0
  /\ i = 0
  /\ limit = 0
  /\ yielded = << >>
  /\ yieldedAll = << >>
  /\ nCount = 0
  /\ nBatch = 0
  /\ parity = 0
  /\ lastRpc = "none"
  /\ seenLen = -1

\* Account.history2: the count check and the start index; returns the
\* generator of history(filter_by, start=start_index), not yet started.
History2 ==
  /\ pc = "h2"
  /\ LET m  == virtual_op_count(ledger)
         si == m - take
     IN  start' = IF si < 0 THEN 0 ELSE si
  /\ pc' = "init"
  /\ nCount' = Sat(nCount)
  /\ lastRpc' = "ok"
  /\ UNCHANGED notReplayVars
  /\ UNCHANGED <<ledger, grown, mode, batch_size, filter_by, take, max_index,
                 i, limit, yielded, yieldedAll, nBatch, parity, seenLen>>

\* Faulty variant of HistoryStart: no early return when max_index is 0.
HistoryStartNoEarlyReturn ==
  /\ pc = "init"
  /\ max_index' = virtual_op_count(ledger)
  /\ pc' = "loop"
  /\ i' = start + batch_size
  /\ nCount' = Sat(nCount)
  /\ lastRpc' = "ok"
  /\ seenLen' = Len(ledger)
  /\ UNCHANGED notReplayVars
  /\ UNCHANGED <<ledger, grown, mode, batch_size, filter_by, start, take,
                 limit, yielded, yieldedAll, nBatch, parity>>

\* Account.history up to the loop: the count check, the early return on an
\* empty history, the first fetch index.
HistoryStart ==
  /\ pc = "init"
  /\ LET m == virtual_op_count(ledger)
     IN  /\ max_index' = m
         /\ IF m = 0
              THEN pc' = "done" /\ i' = i
              ELSE pc' = "loop" /\ i' = start + batch_size
  /\ nCount' = Sat(nCount)
  /\ lastRpc' = "ok"
  /\ seenLen' = Len(ledger)
  /\ UNCHANGED notReplayVars
  /\ UNCHANGED <<ledger, grown, mode, batch_size, filter_by, start, take,
                 limit, yielded, yieldedAll, nBatch, parity>>

\* One turn of the while loop of Account.history: the batch fetch and the for
\* loop over its items.
HistoryBatch ==
  /\ pc = "loop"
  /\ LET lim == BatchLimit(i, start + batch_size, batch_size)
         h   == get_account_history(ledger, i, lim)
         r   == ForItems(h, 1, max_index, filter_by, << >>)
         ra  == ForItems(h, 1, max_index, NoFilter, << >>)
     IN  /\ limit' = lim
         /\ yielded' = yielded \o r.out
         /\ yieldedAll' = yieldedAll \o ra.out
         /\ IF r.returned
              THEN pc' = "done" /\ i' = i
              ELSE pc' = "loop"
                   /\ i' = IF i > Horizon THEN i ELSE i + batch_size
  /\ nBatch' = Sat(nBatch)
  /\ parity' = 1 - parity
  /\ lastRpc' = "ok"
  /\ UNCHANGED notReplayVars
  /\ UNCHANGED <<ledger, grown, mode, batch_size, filter_by, start, take,
                 max_index, nCount, seenLen>>

\* Faulty variant of RpcFails: the failure is swallowed and the call is sent again.
RpcFailsRetried ==
  /\ pc \in {"h2", "init", "loop"}
  /\ lastRpc' = "fail"
  /\ IF pc = "loop"
       THEN nBatch' = Sat(nBatch) /\ parity' = 1 - parity /\ nCount' = nCount
       ELSE nCount' = Sat(nCount) /\ UNCHANGED <<nBatch, parity>>
  /\ UNCHANGED notReplayVars
  /\ UNCHANGED <<ledger, grown, mode, batch_size, filter_by, start, take, pc,
                 max_index, i, limit, yielded, yieldedAll, seenLen>>

\* A remote call of the replay fails: the exception leaves the generator.
RpcFails ==
  /\ pc \in {"h2", "init", "loop"}
  /\ pc' = "error"
  /\ lastRpc' = "fail"
  /\ IF pc = "loop"
       THEN nBatch' = Sat(nBatch) /\ parity' = 1 - parity /\ nCount' = nCount
       ELSE nCount' = Sat(nCount) /\ UNCHANGED <<nBatch, parity>>
  /\ UNCHANGED notReplayVars
  /\ UNCHANGED <<ledger, grown, mode, batch_size, filter_by, start, take,
                 max_index, i, limit, yielded, yieldedAll, seenLen>>

\* The chain appends an operation to the account log.
LedgerAppend ==
  /\ Len(ledger) < MaxOps
  /\ \E t \in Tags : ledger' = Append(ledger, t)
  /\ grown' = TRUE
  /\ UNCHANGED notReplayVars
  /\ UNCHANGED <<mode, batch_size, filter_by, start, take, pc, max_index, i,
                 limit, yielded, yieldedAll, nCount, nBatch, parity, lastRpc,
                 seenLen>>

ReplayStep == History2 \/ HistoryStart \/ HistoryBatch

\* ------------------------------------------------------------ Ticker.price
\* The keys of Ticker.URLS, in the order of the dict.
Exchanges == <<"btc-e", "bitfinex", "bittrex", "bitstamp", "coinbase", "poloniex">>

ExchangeSet == {Exchanges[k] : k \in DOMAIN Exchanges}

\* Ticker.RESPONSES["price"] and Ticker.RESPONSES["volume"].
PriceField(e) ==
  CASE e = "btc-e" -> "avg" [] e = "bitfinex" -> "last_price"
    [] e = "bittrex" -> "Last" [] e = "bitstamp" -> "last"
    [] e = "coinbase" -> "price" [] OTHER -> "last"

VolumeField(e) ==
  CASE e = "btc-e" -> "vol_cur" [] e = "bitfinex" -> "volume"
    [] e = "bittrex" -> "BaseVolume" [] e = "bitstamp" -> "volume"
    [] e = "coinbase" -> "volume" [] OTHER -> "baseVolume"

\* Where price looks for the ticker of an exchange inside the body.
Nesting(e) ==
  IF e \in {"okcoin", "btc-e"} THEN "ticker"
  ELSE IF e = "bittrex" THEN "result0"
  ELSE IF e = "poloniex" THEN "symbol"
  ELSE "flat"

\* The (price, volume) pairs of the model's quotes.
Quotes == {<<10, 1>>, <<20, 3>>, <<100, 5>>, <<20, 0>>}

\* No response yet.
Pending == [kind |-> "pending", status |-> 0, json |-> "none", nest |-> "none",
            price_key |-> "", volume_key |-> "", price |-> 0, volume |-> 0]

\* The request raised (connection error or the 2 s timeout): grequests.map
\* puts the value of exception_handler, "", in its place.
Exception(why) ==
  [kind |-> why, status |-> 0, json |-> "none", nest |-> "none",
   price_key |-> "", volume_key |-> "", price |-> 0, volume |-> 0]

\* An HTTP response whose body is the ticker of exchange e with the quote (p, v).
QuoteResponse(e, st, p, v) ==
  [kind |-> "response", status |-> st, json |-> "ticker", nest |-> Nesting(e),
   price_key |-> PriceField(e), volume_key |-> VolumeField(e),
   price |-> p, volume |-> v]

\* HTTP 200 responses that carry no usable quote: a body that is not JSON, an
\* empty JSON body, an {"error": "invalid ..."} body, a ticker without its
\* volume field.
BadResponses(e) ==
  { [kind |-> "response", status |-> 200, json |-> j, nest |-> Nesting(e),
     price_key |-> k, volume_key |-> "", price |-> 10, volume |-> 1] :
      <<j, k>> \in { <<"unparseable", "">>, <<"empty", "">>,
                     <<"error_invalid", "">>,
                     <<"ticker", PriceField(e)>> } }

\* The outcomes of the request to exchange e: it raises, or a response comes
\* with a status other than 200 or with 200.
Failures == {Exception("timeout"), Exception("error")}

HttpResponses(e) ==
  {QuoteResponse(e, 200, q[1], q[2]) : q \in Quotes}
  \cup {QuoteResponse(e, 500, 10, 1)}
  \cup BadResponses(e)

Outcomes(e) == Failures \cup HttpResponses(e)

\* At most MaxResponders exchanges answer with an HTTP response in one call.
MaxResponders == 2

Responders(rs) == {e \in ExchangeSet : rs[e].kind = "response"}

\* hasattr(x, "status_code") and x.status_code == 200, before x.json().
Is200(r) == r.kind = "response" /\ r.status = 200

\* The list comprehension valid_responses: x.json() raises on a body that is
\* not JSON, and an empty JSON body is falsy.
JsonRaises(rs) == \E e \in ExchangeSet : Is200(rs[e]) /\ rs[e].json = "unparseable"

IsValid(r) == Is200(r) /\ r.json # "empty"

\* data[...] of the loop body finds the nesting and both fields.
Extractable(e, r) ==
  /\ r.json = "ticker"
  /\ r.nest = Nesting(e)
  /\ r.price_key = PriceField(e)
  /\ r.volume_key = VolumeField(e)

\* The for loop over valid_responses from the k-th exchange on: the dict
\* prices (as the set of its keys) or the error the body raised.
RECURSIVE ForResponses(_, _, _)
ForResponses(rs, k, prices) ==
  IF k > Len(Exchanges) THEN [raised |-> "", prices |-> prices]
  ELSE LET e == Exchanges[k]
           r == rs[e]
       IN  IF ~IsValid(r) THEN ForResponses(rs, k + 1, prices)
           ELSE IF r.json = "error_invalid" THEN ForResponses(rs, k + 1, prices)
           ELSE IF ~Extractable(e, r) THEN [raised |-> "KeyError", prices |-> prices]
           ELSE ForResponses(rs, k + 1, prices \cup {e})

\* The sums np.average takes over the values of the dict prices.
RECURSIVE SumPV(_, _)
SumPV(rs, S) ==
  IF S = {} THEN 0
  ELSE LET e == CHOOSE x \in S : TRUE
       IN  rs[e].price * rs[e].volume + SumPV(rs, S \ {e})

RECURSIVE SumV(_, _)
SumV(rs, S) ==
  IF S = {} THEN 0
  ELSE LET e == CHOOSE x \in S : TRUE
       IN  rs[e].volume + SumV(rs, S \ {e})

Raised(err) == [kind |-> "raised", err |-> err, num |-> 0, den |-> 1]
Returned(n, d) == [kind |-> "returned", err |-> "", num |-> n, den |-> d]

\* np.average(prices, weights=volumes): the quotient sum(p*v) / sum(v), kept
\* as numerator and denominator; ZeroDivisionError when the weights sum to 0.
np_average(rs, prices) ==
  LET n == SumPV(rs, prices)
      d == SumV(rs, prices)
  IN  IF d = 0 THEN Raised("ZeroDivisionError") ELSE Returned(n, d)

\* Ticker.price after grequests.map has returned.
Aggregate(rs) ==
  IF JsonRaises(rs) THEN Raised("ValueError")
  ELSE LET l == ForResponses(rs, 1, {})
       IN  IF l.raised # "" THEN Raised(l.raised)
           ELSE IF Cardinality(l.prices) = 0 THEN Raised("TickerError")
           ELSE np_average(rs, l.prices)

NoResult == [kind |-> "none", err |-> "", num |-> 0, den |-> 1]

PriceIdle ==
  /\ ppc = "idle"
  /\ sent = [e \in ExchangeSet |-> 0]
  /\ resp = [e \in ExchangeSet |-> Pending]
  /\ result = NoResult
  /\ arrived = << >>

\* price builds the urls and grequests.map sends one GET per exchange.
PriceFanout ==
  /\ ppc = "idle"
  /\ ppc' = "waiting"
  /\ sent' = [e \in ExchangeSet |-> sent[e] + 1]
  /\ UNCHANGED <<resp, result, arrived>>
  /\ UNCHANGED notPriceVars

\* Faulty variant of Resolve: a request that hit its timeout is sent once more.
ResolveRetries ==
  /\ ppc = "waiting"
  /\ \E e \in ExchangeSet :
       /\ resp[e] = Pending
       /\ \E o \in Outcomes(e) :
            /\ o.kind = "response" =>
                 Cardinality(Responders(resp)) < MaxResponders
            /\ IF o = Exception("timeout") /\ sent[e] = 1
                 THEN /\ sent' = [sent EXCEPT ![e] = sent[e] + 1]
                      /\ UNCHANGED <<resp, arrived>>
                 ELSE /\ resp' = [resp EXCEPT ![e] = o]
                      /\ arrived' = IF o.kind = "response"
                                      THEN Append(arrived, e) ELSE arrived
                      /\ UNCHANGED sent
  /\ UNCHANGED <<ppc, result>>
  /\ UNCHANGED notPriceVars

\* The request to one exchange resolves: a response, an error or its timeout.
Resolve ==
  /\ ppc = "waiting"
  /\ \E e \in ExchangeSet :
       /\ resp[e] = Pending
       /\ \E o \in Outcomes(e) :
            /\ o.kind = "response" =>
                 Cardinality(Responders(resp)) < MaxResponders
            /\ resp' = [resp EXCEPT ![e] = o]
            /\ arrived' = IF o.kind = "response" THEN Append(arrived, e)
                          ELSE arrived
  /\ UNCHANGED <<ppc, sent, result>>
  /\ UNCHANGED notPriceVars

\* grequests.map returns once every request has resolved; price computes.
PriceReturn ==
  /\ ppc = "waiting"
  /\ \A e \in ExchangeSet : resp[e] # Pending
  /\ result' = Aggregate(resp)
  /\ ppc' = IF Aggregate(resp).kind = "raised" THEN "raised" ELSE "returned"
  /\ UNCHANGED <<sent, resp, arrived>>
  /\ UNCHANGED notPriceVars

ReplayIdle ==
  /\ ledger = << >> /\ grown = FALSE /\ mode = "history" /\ batch_size = 1
  /\ filter_by = NoFilter /\ start = 0 /\ take = 0 /\ pc = "done"
  /\ max_index = 0 /\ i = 0 /\ limit = 0 /\ yielded = << >>
  /\ yieldedAll = << >> /\ nCount = 0 /\ nBatch = 0 /\ parity = 0
  /\ lastRpc = "none" /\ seenLen = -1

\* ------------------------------------------- Converter: cached accessors
\* timeout=5 * 60 of both decorators.
CacheTimeout == 300

\* The clock advances by TickStep - 1, TickStep or TickStep + 1 seconds up to
\* MaxTime.
TickStep == 100
MaxTime == 310

Accessors == {"sbd_median_price", "steem_per_mvests"}

\* Values of the remote chain state.
FeedAmounts == {1100, 1250}
VestingFunds == {480, 490}
VestingShares == {2000}

\* read_asset(feed['current_median_history']['base'])['value']: the amount of
\* the asset string, a decimal with three places.
FeedValue(f) == [num |-> f, den |-> 1000]

\* total_vesting_fund_steem / (total_vesting_shares / 1e6), as a quotient.
MvestsValue(pr) == [num |-> pr.fund * 1000000, den |-> pr.shares]

NoEntry == [set |-> FALSE, expires |-> 0, value |-> [num |-> 0, den |-> 1]]

\* SimpleCache.get: the value of a key that is set and has not expired.
CacheHit(c, key, t) == c[key].set /\ c[key].expires > t

NoFetch == [set |-> FALSE, at |-> 0, value |-> [num |-> 0, den |-> 1]]

NoCall == [kind |-> "none", acc |-> "", at |-> 0, remote |-> FALSE,
           value |-> [num |-> 0, den |-> 1], prev |-> NoFetch,
           fresh |-> [num |-> 0, den |-> 1]]

CacheIdle ==
  /\ now = 0
  /\ base_cache = [k \in Accessors |-> NoEntry]
  /\ feed = 1100
  /\ props = [fund |-> 480, shares |-> 2000]
  /\ fetched = [k \in Accessors |-> NoFetch]
  /\ lastCall = NoCall

CacheInit ==
  /\ now = 0
  /\ base_cache = [k \in Accessors |-> NoEntry]
  /\ feed \in FeedAmounts
  /\ props \in [fund : VestingFunds, shares : VestingShares]
  /\ fetched = [k \in Accessors |-> NoFetch]
  /\ lastCall = NoCall

\* simple_cache(base_cache, timeout): an accessor under its own key returns
\* the cached value while the entry lives, and otherwise calls the function,
\* stores what it returned for timeout seconds and returns it.
simple_cache(key, timeout, fresh) ==
  IF CacheHit(base_cache, key, now)
    THEN /\ lastCall' = [kind |-> "returned", acc |-> key, at |-> now,
                         remote |-> FALSE, value |-> base_cache[key].value,
                         prev |-> fetched[key], fresh |-> fresh]
         /\ UNCHANGED <<base_cache, fetched>>
    ELSE /\ base_cache' = [base_cache EXCEPT ![key] =
                             [set |-> TRUE, expires |-> now + timeout,
                              value |-> fresh]]
         /\ fetched' = [fetched EXCEPT ![key] =
                          [set |-> TRUE, at |-> now, value |-> fresh]]
         /\ lastCall' = [kind |-> "returned", acc |-> key, at |-> now,
                         remote |-> TRUE, value |-> fresh,
                         prev |-> fetched[key], fresh |-> fresh]

\* Faulty variant of steem_per_mvests: the decorator is given a timeout of an hour.
steem_per_mvests_hour ==
  /\ simple_cache("steem_per_mvests", 12 * CacheTimeout, MvestsValue(props))
  /\ UNCHANGED <<now, feed, props>>
  /\ UNCHANGED notCacheVars

\* Converter.sbd_median_price.
sbd_median_price ==
  /\ simple_cache("sbd_median_price", CacheTimeout, FeedValue(feed))
  /\ UNCHANGED <<now, feed, props>>
  /\ UNCHANGED notCacheVars

\* Converter.steem_per_mvests.
steem_per_mvests ==
  /\ simple_cache("steem_per_mvests", CacheTimeout, MvestsValue(props))
  /\ UNCHANGED <<now, feed, props>>
  /\ UNCHANGED notCacheVars

\* An accessor whose entry is missing or expired calls the remote, which fails:
\* the exception reaches the caller and the cache keeps what it had.
AccessorFails ==
  /\ \E key \in Accessors :
       /\ ~CacheHit(base_cache, key, now)
       /\ lastCall' = [kind |-> "raised", acc |-> key, at |-> now,
                       remote |-> TRUE, value |-> [num |-> 0, den |-> 1],
                       prev |-> fetched[key], fresh |-> [num |-> 0, den |-> 1]]
  /\ UNCHANGED <<now, base_cache, feed, props, fetched>>
  /\ UNCHANGED notCacheVars

\* Time passes.
Tick ==
  /\ \E d \in {TickStep - 1, TickStep, TickStep + 1} :
       /\ now + d <= MaxTime
       /\ now' = now + d
  /\ UNCHANGED <<base_cache, feed, props, fetched, lastCall>>
  /\ UNCHANGED notCacheVars

\* The chain publishes a new median price or new vesting totals.
ChainChanges ==
  /\ \/ feed' \in FeedAmounts \ {feed} /\ props' = props
     \/ props' \in [fund : VestingFunds, shares : VestingShares] \ {props}
        /\ feed' = feed
  /\ UNCHANGED <<now, base_cache, fetched, lastCall>>
  /\ UNCHANGED notCacheVars

\* ------------------------------------------- Converter.sp_to_rshares
\* Python's / on numbers is true division: its results are kept as quotients
\* num/den in lowest terms, den > 0.
RECURSIVE GCD(_, _)
GCD(a, b) == IF b = 0 THEN a ELSE GCD(b, a % b)

Quot(n, d) ==
  LET g == GCD(IF n < 0 THEN -n ELSE n, d)
  IN  IF g = 0 THEN [num |-> 0, den |-> 1] ELSE [num |-> n \div g, den |-> d \div g]

\* q / n for an integer n > 0.
TrueDiv(q, n) ==
  LET g == GCD(IF q.num < 0 THEN -q.num ELSE q.num, n)
  IN  IF q.num = 0 THEN [num |-> 0, den |-> 1]
      ELSE [num |-> q.num \div g, den |-> q.den * (n \div g)]

\* q + n and q * n for an integer n >= 0.
PlusInt(q, n) == Quot(q.num + n * q.den, q.den)

TimesInt(q, n) ==
  LET g == GCD(n, q.den)
  IN  IF n = 0 THEN [num |-> 0, den |-> 1]
      ELSE [num |-> q.num * (n \div g), den |-> q.den \div g]

\* Converter.sp_to_rshares from vesting_shares on (the int of line 511):
\*   power = (((voting_power * vote_pct) / 10000) / 200) + 1
\*   rshares = (power * vesting_shares) / 10000
sp_to_rshares(vesting_shares, voting_power, vote_pct) ==
  LET power == PlusInt(TrueDiv(TrueDiv(Quot(voting_power * vote_pct, 1), 10000),
                               200), 1)
  IN  TrueDiv(TimesInt(power, vesting_shares), 10000)

\* The arguments of the model's calls: voting_power and vote_pct in 0..10000,
\* vesting_shares >= 0.
VotingPowers == {0, 100, 2500, 5000, 9900, 10000}
VotePcts == {0, 100, 2500, 5000, 9900, 10000}
VestingShareUnits == {0, 1, 9999, 10000, 12345, 30000, 100000}

ConvIdle ==
  conv = [pc |-> "idle", vesting_shares |-> 0, voting_power |-> 0,
          vote_pct |-> 0, rshares |-> [num |-> 0, den |-> 1]]

ConvInit ==
  conv \in [pc : {"called"}, vesting_shares : VestingShareUnits,
            voting_power : VotingPowers, vote_pct : VotePcts,
            rshares : {[num |-> 0, den |-> 1]}]

\* sp_to_rshares returns.
ConvReturn ==
  /\ conv.pc = "called"
  /\ conv' = [conv EXCEPT
       !.pc = "returned",
       !.rshares = sp_to_rshares(conv.vesting_shares, conv.voting_power,
                                 conv.vote_pct)]
  /\ UNCHANGED notConvVars

\* ------------------------------------------- Ticker.get_ticker_symbol
\* Strings are sequences of one-character strings.
\* str.upper, on the letters of the model.
UpperChar(c) ==
  CASE c = "a" -> "A" [] c = "b" -> "B" [] c = "c" -> "C" [] c = "d" -> "D"
    [] c = "s" -> "S" [] c = "t" -> "T" [] c = "u" -> "U" [] OTHER -> c

Upper(str) == [k \in DOMAIN str |-> UpperChar(str[k])]

\* str.replace(old, new): every occurrence of old, left to right, not
\* overlapping (old is not empty).
RECURSIVE Replace(_, _, _)
Replace(str, old, new) ==
  IF Len(str) < Len(old) THEN str
  ELSE IF SubSeq(str, 1, Len(old)) = old
    THEN new \o Replace(SubSeq(str, Len(old) + 1, Len(str)), old, new)
  ELSE <<str[1]>> \o Replace(Tail(str), old, new)

\* str.split(sep) for a one-character sep, from position k on; cur is the
\* part being read.
RECURSIVE SplitFrom(_, _, _, _)
SplitFrom(str, sep, k, cur) ==
  IF k > Len(str) THEN <<cur>>
  ELSE IF str[k] = sep THEN <<cur>> \o SplitFrom(str, sep, k + 1, << >>)
  ELSE SplitFrom(str, sep, k + 1, Append(cur, str[k]))

Split(str, sep) == SplitFrom(str, sep, 1, << >>)

\* sub in str.
Contains(str, c) == \E k \in DOMAIN str : str[k] = c

SymRaised == [kind |-> "TickerError", value |-> << >>]
SymReturned(v) == [kind |-> "returned", value |-> v]

usd == <<"u", "s", "d">>
usdt == <<"u", "s", "d", "t">>

\* Faulty variant of get_ticker_symbol: bittrex and poloniex are formatted
\* "{0}-{1}" and "{0}_{1}", base first.
get_ticker_symbol_base_first(currency_pair, exchange_name) ==
  IF exchange_name \notin ExchangeSet THEN SymRaised
  ELSE IF ~Contains(currency_pair, "/") THEN SymRaised
  ELSE LET cp == IF exchange_name \in {"bittrex", "poloniex"}
                   THEN Upper(Replace(currency_pair, usd, usdt))
                   ELSE currency_pair
           parts == Split(cp, "/")
       IN  IF exchange_name = "bittrex"
             THEN SymReturned(parts[1] \o <<"-">> \o parts[2])
           ELSE IF exchange_name = "poloniex"
             THEN SymReturned(parts[1] \o <<"_">> \o parts[2])
           ELSE IF exchange_name \in {"btc-e"}
             THEN SymReturned(Replace(cp, <<"/">>, <<"_">>))
           ELSE IF exchange_name \in {"coinbase"}
             THEN SymReturned(Replace(cp, <<"/">>, <<"-">>))
           ELSE SymReturned(Replace(cp, <<"/">>, << >>))

\* Ticker.get_ticker_symbol.
get_ticker_symbol(currency_pair, exchange_name) ==
  IF exchange_name \notin ExchangeSet THEN SymRaised
  ELSE IF ~Contains(currency_pair, "/") THEN SymRaised
  ELSE LET cp == IF exchange_name \in {"bittrex", "poloniex"}
                   THEN Upper(Replace(currency_pair, usd, usdt))
                   ELSE currency_pair
           parts == Split(cp, "/")
       IN  IF exchange_name = "bittrex"
             THEN SymReturned(parts[2] \o <<"-">> \o parts[1])
           ELSE IF exchange_name = "poloniex"
             THEN SymReturned(parts[2] \o <<"_">> \o parts[1])
           ELSE IF exchange_name \in {"btc-e"}
             THEN SymReturned(Replace(cp, <<"/">>, <<"_">>))
           ELSE IF exchange_name \in {"coinbase"}
             THEN SymReturned(Replace(cp, <<"/">>, <<"-">>))
           ELSE SymReturned(Replace(cp, <<"/">>, << >>))

\* The pairs of the model: every string of at most MaxPairLen characters of
\* PairAlphabet, and some longer ones.
MaxPairLen == 4
PairAlphabet == {"u", "s", "d", "b", "/"}

btc_usd == <<"b", "t", "c", "/", "u", "s", "d">>

Pairs ==
  UNION {[1..n -> PairAlphabet] : n \in 0..MaxPairLen}
  \cup { btc_usd,
         <<"a", "b", "c">>,
         <<"u", "s", "d", "/", "b", "t", "c">>,
         <<"b", "t", "c", "/", "u", "s", "d", "t">>,
         <<"B", "T", "C", "/", "U", "S", "D">> }

\* The exchange names of the model: the configured ones and two others.
ExchangeNames == ExchangeSet \cup {"okcoin", "kraken"}

SymIdle ==
  tsym = [pc |-> "idle", currency_pair |-> << >>, exchange_name |-> "",
          out |-> SymRaised]

SymInit ==
  tsym \in [pc : {"called"}, currency_pair : Pairs,
            exchange_name : ExchangeNames, out : {SymRaised}]

\* get_ticker_symbol returns or raises.
SymReturn ==
  /\ tsym.pc = "called"
  /\ tsym' = [tsym EXCEPT
       !.pc = "done",
       !.out = get_ticker_symbol(tsym.currency_pair, tsym.exchange_name)]
  /\ UNCHANGED notSymVars

\* ------------------------------------------------------ the specifications
\* The replay of an account log; no price call is made.
Init == ReplayInit /\ PriceIdle /\ CacheIdle /\ ConvIdle /\ SymIdle

Next == ReplayStep \/ RpcFails \/ LedgerAppend

Spec == Init /\ [][Next]_vars

\* The replay with its scheduling: the consumer keeps iterating, so a step of
\* the generator that is possible is eventually taken.
FairSpec == Spec /\ WF_vars(ReplayStep)

\* One call of Ticker.price; no replay runs.
PriceInit == PriceIdle /\ ReplayIdle /\ CacheIdle /\ ConvIdle /\ SymIdle

PriceNext == PriceFanout \/ Resolve \/ PriceReturn

PriceSpec == PriceInit /\ [][PriceNext]_vars

\* One call of Ticker.price with its scheduling: every request in flight
\* resolves or hits its timeout, and price runs on once grequests.map returns.
FairPriceSpec == PriceSpec /\ WF_vars(Resolve) /\ WF_vars(PriceReturn)

\* Calls of the two cached accessors of one Converter over time.
CacheSpecInit == CacheInit /\ ReplayIdle /\ PriceIdle /\ ConvIdle /\ SymIdle

CacheNext ==
  sbd_median_price \/ steem_per_mvests \/ AccessorFails \/ Tick \/ ChainChanges

CacheSpec == CacheSpecInit /\ [][CacheNext]_vars

\* Calls of Converter.sp_to_rshares.
ConvSpecInit == ConvInit /\ ReplayIdle /\ PriceIdle /\ CacheIdle /\ SymIdle

ConvNext == ConvReturn

ConvSpec == ConvSpecInit /\ [][ConvNext]_vars

\* Calls of Ticker.get_ticker_symbol.
SymSpecInit == SymInit /\ ReplayIdle /\ PriceIdle /\ CacheIdle /\ ConvIdle

SymNext == SymReturn

SymSpec == SymSpecInit /\ [][SymNext]_vars

\* ------------------------------------------------- the claims: the replay
\* The indices of a sequence of yielded items.
Indices(items) == [k \in DOMAIN items |-> items[k].index]

\* The indices lo, lo+1, ..., hi-1 in increasing order.
Range(lo, hi) == [k \in 1..Max(0, hi - lo) |-> lo + k - 1]

\* Whether an operation type matches a filter that is a tag or a collection of tags.
Matches(f, op_type) ==
  IF f.kind = "str" THEN op_type = f.str
  ELSE op_type \in {f.list[k] : k \in DOMAIN f.list}

\* The items of a sequence whose type matches the filter, in order.
Restrict(items, f) == SelectSeq(items, LAMBDA it : Matches(f, it.op_type))

\* history has read max_index.
Started == seenLen >= 0

C2_AllIndices ==
  (pc = "done" /\ mode = "history" /\ filter_by.kind = "none" /\ start = 0
     /\ ~grown /\ Len(ledger) >= 1) =>
    Indices(yielded) = Range(0, Len(ledger))

\* C3: under a filter that is a tag or a list of tags the replay has yielded,
\* at every moment, the unfiltered sequence restricted to the matching
\* operation types, and no item of another type.
C3_FilterRestricts ==
  (filter_by.kind \in {"str", "list"}) =>
    /\ yielded = Restrict(yieldedAll, filter_by)
    /\ \A k \in DOMAIN yielded : Matches(filter_by, yielded[k].op_type)

\* C3 witness: a finished replay under a list filter that kept some items and
\* dropped others.
C3_Witness ==
  /\ pc = "done" /\ filter_by.kind = "list"
  /\ Len(yielded) >= 1 /\ Len(yielded) < Len(yieldedAll)

\* C4: the statement of the claim: a replay over a non-empty history with
\* start > max_index ends (having yielded nothing).
C4_Terminates ==
  (pc = "loop" /\ seenLen >= 1 /\ start > max_index)
    ~> (pc \in {"done", "error"} /\ yielded = << >>)

\* C5: when the tail fetch of the count check returned no item, the replay has
\* returned, has yielded nothing, raised nothing and sent no batch fetch; a
\* direct replay sent the count check as its only remote call.
C5_EmptyHistory ==
  (Started /\ seenLen = 0) =>
    /\ pc = "done"
    /\ yielded = << >>
    /\ nBatch = 0
    /\ (mode = "history" => nCount = 1)

\* C5 witness: a replay that returned on an empty history, to which operations
\* were appended afterwards.
C5_Witness == Started /\ seenLen = 0 /\ pc = "done" /\ Len(ledger) >= 1

\* C8: a failed remote call ends the replay with the error and leaves what was
\* yielded as it was; after the error no fetch is sent (none retried) and
\* nothing more is yielded.
C8_FailurePropagates ==
  [][ /\ (lastRpc' = "fail" /\ lastRpc # "fail") =>
           (pc' = "error" /\ yielded' = yielded)
      /\ (pc = "error") =>
           (pc' = "error" /\ yielded' = yielded /\ nBatch' = nBatch
            /\ nCount' = nCount /\ parity' = parity /\ lastRpc' = "fail")
    ]_vars

\* C8 witness: a batch fetch failed after earlier batches had yielded items.
C8_Witness == pc = "error" /\ Len(yielded) >= 1 /\ nBatch >= 2

\* C10: the statement of the claim: a finished history2(take=X) has yielded
\* the X most recent operations (all of them when there are fewer than X).
C10_MostRecent ==
  (pc = "done" /\ mode = "history2" /\ filter_by.kind = "none" /\ ~grown) =>
    Indices(yielded) = Range(Max(0, Len(ledger) - take), Len(ledger))

\* --------------------------------------------- the claims: Ticker.price
\* price has returned or raised.
PriceFinished == ppc \in {"returned", "raised"}

\* Every exchange ended in one of: HTTP 200 with a quote, an error (raised, or
\* an HTTP status other than 200), a timeout.
ListedOutcomes ==
  \A e \in ExchangeSet :
    \/ resp[e] \in Failures
    \/ resp[e].kind = "response" /\ resp[e].status # 200
    \/ \E q \in Quotes : resp[e] = QuoteResponse(e, 200, q[1], q[2])

\* The exchanges whose response is HTTP 200 with a quote.
Survivors ==
  {e \in ExchangeSet : Is200(resp[e]) /\ Extractable(e, resp[e])}

\* C6: the statement of the claim: over the listed outcomes price raises the
\* no-quotes error exactly when no exchange gave a quote, otherwise returns
\* sum(price*volume)/sum(volume) over the quotes, and raises nothing else.
C6_VwapOrNoQuotes ==
  (PriceFinished /\ ListedOutcomes) =>
    /\ (result = Raised("TickerError")) <=> (Survivors = {})
    /\ (result.kind = "raised") => (result.err = "TickerError")
    /\ (Survivors # {}) =>
         /\ result.kind = "returned"
         /\ result.num * SumV(resp, Survivors) = result.den * SumPV(resp, Survivors)

\* An HTTP 200 response whose body cannot be parsed or lacks the expected
\* nesting or fields.
Malformed(e, r) ==
  Is200(r) /\ (r.json = "unparseable" \/ (r.json = "ticker" /\ ~Extractable(e, r)))

\* The responses with the malformed ones replaced by a failed request.
Dropped(rs) ==
  [e \in ExchangeSet |-> IF Malformed(e, rs[e]) THEN Exception("error") ELSE rs[e]]

\* C7: the statement of the claim: a malformed HTTP 200 response is dropped,
\* so that price ends as if that request had failed.
C7_MalformedDropped ==
  (PriceFinished /\ \E e \in ExchangeSet : Malformed(e, resp[e])) =>
    result = Aggregate(Dropped(resp))

\* ------------------------------------- the claims: the cached accessors
\* The values an accessor can fetch.
OwnValues(acc) ==
  IF acc = "sbd_median_price" THEN {FeedValue(f) : f \in FeedAmounts}
  ELSE {MvestsValue(pr) : pr \in [fund : VestingFunds, shares : VestingShares]}

RefRshares(vesting_shares, voting_power, vote_pct) ==
  LET power == (((voting_power * vote_pct) \div 10000) \div 200) + 1
  IN  (power * vesting_shares) \div 10000

\* C11: the statement of the claim: what sp_to_rshares returns is the
\* integer-truncating reference value.
C11_Truncates ==
  (conv.pc = "returned") =>
    conv.rshares = Quot(RefRshares(conv.vesting_shares, conv.voting_power,
                                   conv.vote_pct), 1)

\* ------------------------------------- the claims: get_ticker_symbol
\* The parts of a sequence of strings joined by sep.
RECURSIVE Join(_, _)
Join(parts, sep) ==
  IF Len(parts) = 0 THEN << >>
  ELSE IF Len(parts) = 1 THEN parts[1]
  ELSE parts[1] \o sep \o Join(Tail(parts), sep)

\* A component of a pair as bittrex and poloniex write it.
Rewritten(part) == Upper(Replace(part, usd, usdt))

\* The symbol of the rule table, for a pair with a separator and a configured
\* exchange: base is the part before the first "/", quote the part after it.
RuleTable(pair, exchange) ==
  LET parts == Split(pair, "/")
  IN  CASE exchange = "bittrex" ->
             Rewritten(parts[2]) \o <<"-">> \o Rewritten(parts[1])
        [] exchange = "poloniex" ->
             Rewritten(parts[2]) \o <<"_">> \o Rewritten(parts[1])
        [] exchange = "btc-e" -> Join(parts, <<"_">>)
        [] exchange = "coinbase" -> Join(parts, <<"-">>)
        [] OTHER -> Join(parts, << >>)

\* C12: get_ticker_symbol raises exactly when the pair has no "/" or the
\* exchange is not configured, and otherwise returns the symbol of the rule
\* table.
C12_TickerSymbol ==
  (tsym.pc = "done") =>
    LET invalid == \/ ~Contains(tsym.currency_pair, "/")
                   \/ tsym.exchange_name \notin
                        {"btc-e", "bitfinex", "bittrex", "bitstamp",
                         "coinbase", "poloniex"}
    IN  /\ (tsym.out.kind = "TickerError") <=> invalid
        /\ ~invalid =>
             tsym.out = SymReturned(RuleTable(tsym.currency_pair,
                                              tsym.exchange_name))

\* C12 witness: "btc/usd" on bittrex gave "USDT-BTC".
C12_Witness ==
  /\ tsym.pc = "done"
  /\ tsym.currency_pair = btc_usd
  /\ tsym.exchange_name = "bittrex"
  /\ tsym.out = SymReturned(<<"U", "S", "D", "T", "-", "B", "T", "C">>)

\* ------------------------------------- the claims: the fan-out of price
\* The outcome of price as a function of the set of responses alone.
OutcomeOf(rs) ==
  LET quoted == {e \in ExchangeSet : IsValid(rs[e]) /\ Extractable(e, rs[e])}
  IN  IF \E e \in ExchangeSet : Is200(rs[e]) /\ rs[e].json = "unparseable"
        THEN Raised("ValueError")
      ELSE IF \E e \in ExchangeSet :
                /\ IsValid(rs[e])
                /\ rs[e].json # "error_invalid"
                /\ ~Extractable(e, rs[e])
        THEN Raised("KeyError")
      ELSE IF quoted = {} THEN Raised("TickerError")
      ELSE IF SumV(rs, quoted) = 0 THEN Raised("ZeroDivisionError")
      ELSE Returned(SumPV(rs, quoted), SumV(rs, quoted))

\* No request is sent before the call, and from the fan-out on every exchange
\* has been sent exactly one request; responses come only to requests sent.
OneRequestEach ==
  /\ (ppc = "idle") => \A e \in ExchangeSet : sent[e] = 0 /\ resp[e] = Pending
  /\ (ppc # "idle") => \A e \in ExchangeSet : sent[e] = 1

\* price ends only when no request is pending, and its outcome depends on
\* the responses, not on the order of their arrival.
EndsAfterAll ==
  PriceFinished =>
    /\ \A e \in ExchangeSet : resp[e] # Pending
    /\ result = OutcomeOf(resp)

====
